---- MODULE Spec2Model ----
(***************************************************************************)
(* assert_fn: the #[assert_fn] attribute macro (assert_fn/src/lib.rs) and  *)
(* the macro_rules! invoker it generates.  The model has two layers: the   *)
(* generation pipeline (get_return_type, get_message, get_values_and_      *)
(* params, get_async, get_tuple_destructure, get_result_block,             *)
(* get_assert_call, the format! template of assert_fn), and the execution  *)
(* of one invocation of the generated invoker (arm selection, the async    *)
(* block, the wrapped call, the `if let Ok` guard, the destructuring       *)
(* `let`, the assertion and the trailing `result`).                        *)
(***************************************************************************)
EXTENDS Integers, Sequences, FiniteSets, TLC

VARIABLES
    item,            \* the parsed ItemFn: [output, inputs, asyncness]
    args,            \* the parsed AttributeArgs: a sequence of NestedMeta
    gen,             \* "pending" | "done" | "fatal": state of assert_fn
    return_type,     \* get_return_type(&item)
    assert_message,  \* get_message(&args)
    artifact,        \* the generated macro_rules! + original fn, or NoArtifact
    tokens,          \* the token sequence of the invocation assert_f!(...)
    pc,              \* "idle" | "rejected" | "suspended" | "returned" | "panicked"
    arm,             \* "none" | "A" | "B": the macro arm that matched
    run              \* what the body did: wrapped call, guard, assertion, value

vars == <<item, args, gen, return_type, assert_message, artifact,
          tokens, pc, arm, run>>

(***************************************************************************)
(* Bounds of the model.                                                    *)
(***************************************************************************)
MaxTupleLen == 3    \* declared tuple types have 0..MaxTupleLen elements ...
WideTupleLen == 256 \* ... or this many (the first length a u8 cannot hold)
MaxArity == 2       \* the annotated function has 0..MaxArity parameters
MaxValue == 1       \* runtime integers are 0..MaxValue

U8Mod == 256        \* `as u8` (AssertReturnType::Tuple(u8)) keeps len mod 2^8

Values == 0..MaxValue

Min(a, b) == IF a < b THEN a ELSE b

(***************************************************************************)
(* Declared return types (syn::ReturnType / syn::Type), as far as the      *)
(* classifier looks into them.                                             *)
(*   kind  "default"  no `-> T`                                            *)
(*         "path"     Type::Path; `last` is the final segment's ident and  *)
(*                    `generic` what its PathArguments hold                *)
(*         "tuple"    Type::Tuple with `len` elements, those at positions  *)
(*                    `nocopy` (1-based) of a type that is not Copy        *)
(*         "other"    any other Type (reference, array, paren, ...)        *)
(* generic: "noangle" (PathArguments::None / Parenthesized), "empty"       *)
(*   (`Result<>`), "lifetime" (first argument is not a type), "bool",      *)
(*   "pathother", "tuple", "other": the kind of the first type argument.   *)
(***************************************************************************)
Ty(kind, last, generic, len, nocopy) ==
    [kind |-> kind, last |-> last, generic |-> generic, len |-> len, nocopy |-> nocopy]

TupleLens == (0..MaxTupleLen) \cup {WideTupleLen}

\* element types of a declared tuple: all Copy, only the last not Copy
\* (usize, usize, String), or none Copy (String, String)
NoCopySets(len) ==
    IF len = 0 \/ len > MaxTupleLen THEN {{}}
    ELSE {{}, {len}, 1..len}

ReturnTypes ==
    {Ty("default", "", "", 0, {}), Ty("other", "", "", 0, {})}
    \cup {Ty("path", l, "noangle", 0, {}) : l \in {"bool", "usize", "Result"}}
    \cup {Ty("path", "Result", g, 0, {}) :
             g \in {"empty", "lifetime", "bool", "pathother", "other"}}
    \cup UNION {{Ty("path", "Result", "tuple", n, nc) : nc \in NoCopySets(n)} :
                   n \in TupleLens}
    \cup UNION {{Ty("tuple", "", "", n, nc) : nc \in NoCopySets(n)} : n \in TupleLens}

(***************************************************************************)
(* AssertReturnType, plus the panic of the classifier as a fifth outcome.  *)
(***************************************************************************)
Shape(tag, n, msg) == [tag |-> tag, n |-> n, msg |-> msg]
Bool == Shape("Bool", 0, "")
Tuple(n) == Shape("Tuple", n, "")
ResultBool == Shape("ResultBool", 0, "")
ResultTuple(n) == Shape("ResultTuple", n, "")
Fatal(msg) == Shape("Fatal", 0, msg)

AsU8(len) == len % U8Mod

get_return_result_type(ty) ==
    IF ty.generic \in {"noangle", "empty", "lifetime"}
    THEN Fatal("returned an invalid Result type")
    ELSE IF ty.generic = "bool" THEN ResultBool
    ELSE IF ty.generic = "pathother"
    THEN Fatal("must return a Result of type bool or tuple")
    ELSE IF ty.generic = "tuple" THEN ResultTuple(AsU8(ty.len))
    ELSE Fatal("must return a Result of type bool or tuple")

get_return_type(it) ==
    LET ty == it.output IN
    IF ty.kind = "default" THEN Fatal("does not return anything")
    ELSE IF ty.kind = "path"
    THEN IF ty.last = "bool" THEN Bool
         ELSE IF ty.last = "Result" THEN get_return_result_type(ty)
         ELSE Fatal("must return a bool, tuple or a Result wrapping one of those types")
    ELSE IF ty.kind = "tuple" THEN Tuple(AsU8(ty.len))
    ELSE Fatal("must return a bool, tuple or a Result wrapping one of those types")

(***************************************************************************)
(* Attribute arguments (syn::AttributeArgs = Vec<NestedMeta>).             *)
(* A top-level entry is                                                    *)
(*   k = "lit"        NestedMeta::Lit                                      *)
(*       "path"       Meta::Path         #[assert_fn(message)]             *)
(*       "namevalue"  Meta::NameValue    #[assert_fn(message = "..")]      *)
(*       "list"       Meta::List, `name` the ident of its last path        *)
(*                    segment, `nested` its NestedMeta entries             *)
(* A nested entry is k = "str" (Lit::Str, `s` its value), "lit" (any other *)
(* literal), "path" (Meta::Path, `id` its last ident; `_` is such a path)  *)
(* or "meta" (a nested list or name-value).                                *)
(* Text is a sequence of lexemes: one-character strings, and identifiers   *)
(* kept whole.                                                             *)
(***************************************************************************)
Nested(k, s, id) == [k |-> k, s |-> s, id |-> id]
NStr(s) == Nested("str", s, "")
NLit == Nested("lit", <<>>, "")
NPath(id) == Nested("path", <<>>, id)
NMeta == Nested("meta", <<>>, "")

MetaEntry(k, name, nested) == [k |-> k, name |-> name, nested |-> nested]
MessageList(nested) == MetaEntry("list", "message", nested)

\* None / Some(AssertMessage { message, args })
AssertMessage(message, margs) == [some |-> TRUE, message |-> message, args |-> margs]
NoMessage == [some |-> FALSE, message |-> <<>>, args |-> <<>>]

RECURSIVE path_idents(_)
\* filter_map over the message args: the last ident of each Meta::Path,
\* every other nested entry dropped (lib.rs 349-355)
path_idents(params) ==
    IF params = <<>> THEN <<>>
    ELSE (IF Head(params).k = "path" THEN <<Head(params).id>> ELSE <<>>)
         \o path_idents(Tail(params))

RECURSIVE used_named(_)
\* filter(|arg| arg != "_").map(|arg| format!("{}={}", arg, arg))
used_named(margs) ==
    IF margs = <<>> THEN <<>>
    ELSE (IF Head(margs) # "_" THEN <<<<Head(margs), "=", Head(margs)>>>> ELSE <<>>)
         \o used_named(Tail(margs))

RECURSIVE message_lists(_)
\* the two filter_maps of get_message: the nested entries of every
\* Meta::List whose last path segment is `message` (lib.rs 328-339)
message_lists(a) ==
    IF a = <<>> THEN <<>>
    ELSE (IF Head(a).k = "list" /\ Head(a).name = "message"
          THEN <<Head(a).nested>> ELSE <<>>)
         \o message_lists(Tail(a))

RECURSIVE Join(_, _)
\* Vec<String>::join(sep): the parts (each a text) separated by sep
Join(parts, sep) ==
    IF parts = <<>> THEN <<>>
    ELSE IF Len(parts) = 1 THEN Head(parts)
    ELSE Head(parts) \o sep \o Join(Tail(parts), sep)

\* the closure of find_map (lib.rs 340-371) applied to one message(...) list
message_of_params(params) ==
    IF params = <<>> \/ Head(params).k # "str" THEN NoMessage
    ELSE LET message == Head(params).s
             margs == path_idents(Tail(params))
             used_args == Join(used_named(margs), <<",", " ">>)
         IN AssertMessage(
              IF margs = <<>>
              THEN <<",", " ", "\"">> \o message \o <<"\"">>
              ELSE <<",", " ", "\"">> \o message \o <<"\"", ",", " ">> \o used_args,
              margs)

RECURSIVE find_map_message(_)
\* Iterator::find_map: the first list for which the closure returns Some
find_map_message(lists) ==
    IF lists = <<>> THEN NoMessage
    ELSE IF message_of_params(Head(lists)).some THEN message_of_params(Head(lists))
    ELSE find_map_message(Tail(lists))

\* mutant: only the first message(...) entry is looked at
get_message_first_only(a) ==
    IF message_lists(a) = <<>> THEN NoMessage
    ELSE message_of_params(Head(message_lists(a)))

get_message(a) == find_map_message(message_lists(a))

(***************************************************************************)
(* Macro matcher and call fragments.  A fragment token is a slot           *)
(* `$arg_n:expr` / `$arg_n` or a comma.                                    *)
(***************************************************************************)
Slot(n) == [t |-> "slot", n |-> n]
CommaTok == [t |-> "comma", n |-> 0]

RECURSIVE fold_params(_, _)
\* the fold of get_values_and_params over inputs n..arity-1
fold_params(n, arity) ==
    IF n >= arity THEN <<>> ELSE <<Slot(n), CommaTok>> \o fold_params(n + 1, arity)

\* mutant: the fold of the values stops one parameter short
get_values_and_params_short(it) ==
    <<fold_params(0, it.inputs), fold_params(0, it.inputs - 1)>>

\* (params, values): "$arg_0:expr,$arg_1:expr," and "$arg_0,$arg_1,"
get_values_and_params(it) ==
    <<fold_params(0, it.inputs), fold_params(0, it.inputs)>>

RECURSIVE trim_end_commas(_)
\* str::trim_end_matches(|c| c == ',')
trim_end_commas(frag) ==
    IF frag # <<>> /\ frag[Len(frag)].t = "comma"
    THEN trim_end_commas(SubSeq(frag, 1, Len(frag) - 1))
    ELSE frag

\* (async_block, dot_await)
get_async(it) ==
    IF it.asyncness THEN <<"async", ".await">> ELSE <<"", "">>

RECURSIVE pad_placeholders(_, _)
\* while (args.len() as u8) < tuple_size { args.push("_") }
pad_placeholders(a, tuple_size) ==
    IF AsU8(Len(a)) < tuple_size
    THEN pad_placeholders(Append(a, "_"), tuple_size)
    ELSE a

\* the pattern of `let (p1, p2, ...) = result;`, <<>> for the empty string;
\* DestructurePanic stands for the panic on a boolean return type
DestructurePanic == <<"panic!">>

\* mutant: message args on a boolean return type are let through
get_tuple_destructure_unchecked(am, rt) ==
    IF am.some /\ am.args # <<>>
    THEN pad_placeholders(am.args, rt.n)
    ELSE <<>>

\* mutant: the pattern is emitted only when some arg is a name
get_tuple_destructure_named_only(am, rt) ==
    IF am.some /\ (\E i \in DOMAIN am.args : am.args[i] # "_")
    THEN IF rt.tag \in {"Bool", "ResultBool"} THEN DestructurePanic
         ELSE pad_placeholders(am.args, rt.n)
    ELSE <<>>

get_tuple_destructure(am, rt) ==
    IF am.some /\ am.args # <<>>
    THEN IF rt.tag \in {"Bool", "ResultBool"} THEN DestructurePanic
         ELSE pad_placeholders(am.args, rt.n)
    ELSE <<>>

\* (if_result_open, if_result_close)
get_result_block(rt) ==
    IF rt.tag \in {"ResultBool", "ResultTuple"}
    THEN <<"if let Ok(result) = result {", "}">>
    ELSE <<"", "">>

get_assert_call(rt) ==
    IF rt.tag \in {"Bool", "ResultBool"} THEN "assert!(result"
    ELSE "assert_eq!(result.0, result.1"

(***************************************************************************)
(* Reading the message fragment back (`.parse()`, lib.rs 173): the text    *)
(* `, "<template>"` optionally followed by `, a=a, b=b` is lexed again as  *)
(* Rust tokens; the template was pasted between the quotes unescaped.      *)
(***************************************************************************)
Lexed(ok, lit, rest) == [ok |-> ok, lit |-> lit, rest |-> rest]

RECURSIVE lex_str_body(_, _)
\* the characters after an opening quote: up to the first quote that is not
\* escaped; `acc` is the value read so far
lex_str_body(text, acc) ==
    IF text = <<>> THEN Lexed(FALSE, acc, <<>>)
    ELSE IF Head(text) = "\"" THEN Lexed(TRUE, acc, Tail(text))
    ELSE IF Head(text) = "\\"
    THEN IF Len(text) >= 2 /\ text[2] \in {"\"", "\\"}
         THEN lex_str_body(Tail(Tail(text)), Append(acc, text[2]))
         ELSE IF Len(text) >= 2 /\ text[2] = "n"
         THEN lex_str_body(Tail(Tail(text)), Append(acc, "\n"))
         ELSE Lexed(FALSE, acc, <<>>)
    ELSE lex_str_body(Tail(text), Append(acc, Head(text)))

RECURSIVE lex_named(_, _)
\* the text after the literal: a run of `, id=id`; when every arg is `_`
\* the text is the `, ` alone, a trailing comma of the assertion
lex_named(text, acc) ==
    IF text = <<>> \/ text = <<",", " ">> THEN Lexed(TRUE, acc, <<>>)
    ELSE IF Len(text) >= 5 /\ text[1] = "," /\ text[2] = " " /\ text[4] = "="
            /\ text[3] = text[5] /\ text[3] \notin {",", " ", "=", "\"", "\\"}
    THEN lex_named(SubSeq(text, 6, Len(text)), Append(acc, text[3]))
    ELSE Lexed(FALSE, acc, text)

RECURSIVE lex_tokens(_)
\* does the text lex as Rust tokens: every quote opens a literal that must
\* close, a backslash outside a literal is no token.  A literal left open
\* runs on through the rest of the generated text, which holds no quote.
lex_tokens(text) ==
    IF text = <<>> THEN TRUE
    ELSE IF Head(text) = "\"" THEN
        LET body == lex_str_body(Tail(text), <<>>) IN
        body.ok /\ lex_tokens(body.rest)
    ELSE IF Head(text) = "\\" THEN FALSE
    ELSE lex_tokens(Tail(text))

\* the format arguments an arm's message fragment denotes:
\* [ok, has, fmt, pos, named, stray]; pos are the rendered positional
\* arguments, stray the tokens after the literal that are no `, id=id` run
FmtArgs(ok, has, fmt, pos, named) ==
    [ok |-> ok, has |-> has, fmt |-> fmt, pos |-> pos, named |-> named,
     stray |-> <<>>]
StrayFmtArgs(fmt, stray) ==
    [FmtArgs(TRUE, TRUE, fmt, <<>>, <<>>) EXCEPT !.stray = stray]
NoFmtArgs == FmtArgs(TRUE, FALSE, <<>>, <<>>, <<>>)
BadFmtArgs == FmtArgs(FALSE, FALSE, <<>>, <<>>, <<>>)

parse_message(message) ==
    IF message = <<>> THEN NoFmtArgs
    ELSE IF Len(message) < 3 \/ SubSeq(message, 1, 3) # <<",", " ", "\"">>
    THEN BadFmtArgs
    ELSE LET body == lex_str_body(SubSeq(message, 4, Len(message)), <<>>)
             named == lex_named(body.rest, <<>>)
         IN IF body.ok /\ named.ok
            THEN FmtArgs(TRUE, TRUE, body.lit, <<>>, named.lit)
            ELSE IF body.ok /\ lex_tokens(body.rest)
            THEN StrayFmtArgs(body.lit, body.rest)
            ELSE BadFmtArgs

(***************************************************************************)
(* assert_fn (lib.rs 117-175): the generated artifact.  Each arm records   *)
(* the fragments the format! template puts in it; arm B has no             *)
(* {tuple_destructure} and `, $($arg)*` in place of {message}.             *)
(***************************************************************************)
TailArgs == "$($arg)*"

Arm(matcher, tail, async_block, values, dot_await, if_result_open, tuple_destructure, assert_call, message, if_result_close) ==
    [matcher |-> matcher, tail |-> tail, async_block |-> async_block,
     values |-> values, dot_await |-> dot_await,
     if_result_open |-> if_result_open,
     tuple_destructure |-> tuple_destructure,
     assert_call |-> assert_call, message |-> message,
     if_result_close |-> if_result_close]

NoArm == Arm(<<>>, "", "", <<>>, "", "", <<>>, "", <<>>, "")

Artifact(ok, panic, name, armA, armB, original_fn) ==
    [ok |-> ok, panic |-> panic, name |-> name, armA |-> armA, armB |-> armB,
     original_fn |-> original_fn]

ItemFn(name, output, inputs, asyncness) ==
    [name |-> name, output |-> output, inputs |-> inputs, asyncness |-> asyncness]
NoItem == ItemFn("", Ty("default", "", "", 0, {}), 0, FALSE)

Aborted(msg) == Artifact(FALSE, msg, <<>>, NoArm, NoArm, NoItem)
NoArtifact == Aborted("")

\* arm A: ({params_trimmed}$(,)?) => {async_block} { ... {tuple_destructure}
\*        {assert_call}{message}); ... result }
form_a(params, values, as, rb, td, ac, message) ==
    Arm(trim_end_commas(params), "$(,)?", as[1], trim_end_commas(values), as[2],
        rb[1], td, ac, message, rb[2])

\* mutant: arm B keeps the configured message in front of the caller's tokens
form_b_keeps_message(params, values, as, rb, td, ac, message) ==
    Arm(params, "$($arg:tt)+", as[1], trim_end_commas(values), as[2],
        rb[1], td, ac, IF message = <<>> THEN <<",", " ", TailArgs>> ELSE message,
        rb[2])

\* arm B: ({params}$($arg:tt)+) => {async_block} { ... {assert_call}, $($arg)*); ... result }
form_b(params, values, as, rb, td, ac, message) ==
    Arm(params, "$($arg:tt)+", as[1], trim_end_commas(values), as[2],
        rb[1], <<>>, ac, <<",", " ", TailArgs>>, rb[2])

assert_fn(a, it) ==
    LET rt == get_return_type(it)
        am == get_message(a)
        pv == get_values_and_params(it)
        as == get_async(it)
        td == get_tuple_destructure(am, rt)
        rb == get_result_block(rt)
        ac == get_assert_call(rt)
        message == IF am.some THEN am.message ELSE <<>>
    IN IF rt.tag = "Fatal" THEN Aborted(rt.msg)
       ELSE IF td = DestructurePanic
       THEN Aborted("Tried to use message args on function with boolean return type")
       ELSE IF ~parse_message(message).ok THEN Aborted("Generated invalid tokens")
       ELSE Artifact(TRUE, "", <<"assert_", it.name>>,
                     form_a(pv[1], pv[2], as, rb, td, ac, message),
                     form_b(pv[1], pv[2], as, rb, td, ac, message),
                     it)

(***************************************************************************)
(* An invocation assert_f!(...) of the generated macro.  Its input is a    *)
(* token sequence: integer expressions, string literals and commas.        *)
(***************************************************************************)
Tok(t, v, s) == [t |-> t, v |-> v, s |-> s]
Expr(v) == Tok("expr", v, <<>>)
Lit(s) == Tok("lit", 0, s)
Comma == Tok("comma", 0, <<>>)

Matched(ok, bind, rest) == [ok |-> ok, bind |-> bind, rest |-> rest]
NoMatch == Matched(FALSE, <<>>, <<>>)

RECURSIVE match_slots(_, _, _)
\* macro_rules! matching of the slot/comma part of a matcher: `$arg_n:expr`
\* takes one expression (a literal is one), `,` takes a comma.  bind lists
\* the pairs <<n, token>>: $arg_n is bound to token.
match_slots(matcher, toks, bind) ==
    IF matcher = <<>> THEN Matched(TRUE, bind, toks)
    ELSE IF toks = <<>> THEN NoMatch
    ELSE IF Head(matcher).t = "slot"
    THEN IF Head(toks).t \in {"expr", "lit"}
         THEN match_slots(Tail(matcher), Tail(toks),
                          Append(bind, <<Head(matcher).n, Head(toks)>>))
         ELSE NoMatch
    ELSE IF Head(toks).t = "comma"
         THEN match_slots(Tail(matcher), Tail(toks), bind)
         ELSE NoMatch

\* one arm: the slots, then `$(,)?` (at most one comma, then the end) or
\* `$($arg:tt)+` (one or more tokens of any kind)
match_arm(armrec, toks) ==
    LET m == match_slots(armrec.matcher, toks, <<>>) IN
    IF ~m.ok THEN NoMatch
    ELSE IF armrec.tail = "$(,)?"
    THEN IF m.rest = <<>> \/ m.rest = <<Comma>> THEN Matched(TRUE, m.bind, <<>>)
         ELSE NoMatch
    ELSE IF m.rest # <<>> THEN m ELSE NoMatch

\* macro_rules! tries the arms in order
select_arm(art, toks) ==
    IF match_arm(art.armA, toks).ok THEN "A"
    ELSE IF match_arm(art.armB, toks).ok THEN "B"
    ELSE "none"

ArmOf(art, which) == IF which = "A" THEN art.armA ELSE art.armB

(***************************************************************************)
(* Format arguments of the assertion.                                      *)
(***************************************************************************)
Digits == <<"0", "1", "2", "3", "4", "5", "6", "7", "8", "9">>
Render(tok) == IF tok.t = "lit" THEN tok.s ELSE <<Digits[tok.v + 1]>>

RECURSIVE tail_positional(_)
\* the arguments after the format string of `$($arg)*`: `, e` repeated, with
\* an optional last comma; <<"bad">> when the tokens are not of that form
tail_positional(toks) ==
    IF toks = <<>> \/ toks = <<Comma>> THEN <<>>
    ELSE IF Len(toks) >= 2 /\ toks[1].t = "comma" /\ toks[2].t # "comma"
    THEN <<Render(toks[2])>> \o tail_positional(SubSeq(toks, 3, Len(toks)))
    ELSE <<<<"bad">>>>

RECURSIVE well_formed_tail(_)
well_formed_tail(toks) ==
    \/ toks = <<>>
    \/ toks = <<Comma>>
    \/ /\ Len(toks) >= 2 /\ toks[1].t = "comma" /\ toks[2].t # "comma"
       /\ well_formed_tail(SubSeq(toks, 3, Len(toks)))

\* the format arguments of an arm once `$($arg)*` is replaced by the tail
format_args(armrec, rest) ==
    IF armrec.message = <<",", " ", TailArgs>>
    THEN IF rest # <<>> /\ Head(rest).t = "lit" /\ well_formed_tail(Tail(rest))
         THEN FmtArgs(TRUE, TRUE, Head(rest).s, tail_positional(Tail(rest)), <<>>)
         ELSE BadFmtArgs
    ELSE parse_message(armrec.message)

RECURSIVE holes(_)
\* the placeholders of a format string, in order: "" for `{}`, the name for
\* `{name}`; <<"bad">> marks a brace that opens or closes no placeholder
holes(fmt) ==
    IF fmt = <<>> THEN <<>>
    ELSE IF Head(fmt) = "{"
    THEN IF Len(fmt) >= 2 /\ fmt[2] = "}" THEN <<"">> \o holes(SubSeq(fmt, 3, Len(fmt)))
         ELSE IF Len(fmt) >= 3 /\ fmt[3] = "}" /\ fmt[2] \notin {"{", "}"}
         THEN <<fmt[2]>> \o holes(SubSeq(fmt, 4, Len(fmt)))
         ELSE <<"bad">>
    ELSE IF Head(fmt) = "}" THEN <<"bad">>
    ELSE holes(Tail(fmt))

Range(sq) == {sq[i] : i \in DOMAIN sq}
Count(sq, x) == Cardinality({i \in DOMAIN sq : sq[i] = x})

\* format_args! accepts fa: every placeholder has its argument and every
\* argument its placeholder
format_ok(fa) ==
    /\ fa.ok
    /\ fa.stray = <<>>
    /\ fa.has =>
         LET hs == holes(fa.fmt) IN
         /\ "bad" \notin Range(hs)
         /\ Count(hs, "") = Len(fa.pos)
         /\ Range(hs) \ {""} = Range(fa.named)
         /\ \A i, j \in DOMAIN fa.named : fa.named[i] = fa.named[j] => i = j

Lookup(env, id) ==
    LET hit == {i \in DOMAIN env : env[i][1] = id} IN
    IF hit = {} THEN <<"?">> ELSE <<Digits[env[CHOOSE i \in hit : TRUE][2] + 1]>>

RECURSIVE format(_, _, _)
\* the text format_args! produces: placeholders replaced by the next
\* positional argument or by the named value
format(fmt, pos, env) ==
    IF fmt = <<>> THEN <<>>
    ELSE IF Head(fmt) = "{" /\ Len(fmt) >= 2 /\ fmt[2] = "}"
    THEN (IF pos = <<>> THEN <<"?">> ELSE Head(pos))
         \o format(SubSeq(fmt, 3, Len(fmt)), IF pos = <<>> THEN pos ELSE Tail(pos), env)
    ELSE IF Head(fmt) = "{" /\ Len(fmt) >= 3 /\ fmt[3] = "}"
    THEN Lookup(env, fmt[2]) \o format(SubSeq(fmt, 4, Len(fmt)), pos, env)
    ELSE <<Head(fmt)>> \o format(Tail(fmt), pos, env)

(***************************************************************************)
(* Runtime values of the wrapped function.  wrap is "none" for a bare bool *)
(* or tuple, "Ok"/"Err" for a Result; b is the bool payload, t the tuple   *)
(* payload (for Err, t = <<e>> holds the error value).                     *)
(***************************************************************************)
Val(wrap, b, t) == [wrap |-> wrap, b |-> b, t |-> t]
NoVal == Val("unset", FALSE, <<>>)

\* tuples of a declared length: the first MaxTupleLen elements vary
TupleValues(len) ==
    {[i \in 1..len |-> IF i <= MaxTupleLen THEN f[i] ELSE 0] :
        f \in [1..Min(len, MaxTupleLen) -> Values]}

\* the values a function of the declared return type can return
RetValues(ty) ==
    IF ty.kind = "tuple" THEN {Val("none", FALSE, t) : t \in TupleValues(ty.len)}
    ELSE IF ty.kind = "path" /\ ty.last = "bool"
    THEN {Val("none", b, <<>>) : b \in BOOLEAN}
    ELSE IF ty.kind = "path" /\ ty.last = "Result"
    THEN {Val("Err", FALSE, <<e>>) : e \in Values}
         \cup (IF ty.generic = "bool" THEN {Val("Ok", b, <<>>) : b \in BOOLEAN}
               ELSE IF ty.generic = "tuple"
               THEN {Val("Ok", FALSE, t) : t \in TupleValues(ty.len)}
               ELSE {})
    ELSE {}

\* the payload type is Copy: bool is; a tuple is when every element is and
\* the tuple is no longer than the lengths std implements Copy for (the
\* wide tuple of the model is longer)
PayloadIsCopy(ty) ==
    IF ty.kind = "tuple" \/ ty.generic = "tuple"
    THEN ty.nocopy = {} /\ ty.len <= MaxTupleLen
    ELSE TRUE

\* the payload type is a tuple with fields .0 and .1
HasPair(ty) == (ty.kind = "tuple" \/ ty.generic = "tuple") /\ ty.len >= 2
IsBoolPayload(ty) == ty.kind = "path" /\ (ty.last = "bool" \/ ty.generic = "bool")
IsResultType(ty) == ty.kind = "path" /\ ty.last = "Result"

\* `let (p1, .., pk) = result;` is accepted: one parenthesised pattern binds
\* the whole value, otherwise a tuple pattern of the tuple's own length;
\* no name twice
pattern_ok(pat, ty) ==
    /\ ty.kind = "tuple" \/ ty.generic = "tuple"
    /\ Len(pat) = 1 \/ Len(pat) = ty.len
    /\ \A i, j \in DOMAIN pat : (pat[i] = pat[j] /\ pat[i] # "_") => i = j

\* the pattern moves something that is not Copy out of `result`
pattern_moves(pat, ty) ==
    IF Len(pat) = 1 THEN pat[1] # "_" /\ ~PayloadIsCopy(ty)
    ELSE \E i \in DOMAIN pat : pat[i] # "_" /\ i \in ty.nocopy

\* the expansion of the arm is well typed at the invocation site: the
\* format arguments, the fields the assertion reads, the pattern; `.await`
\* is applied to the future of an async fn and to nothing else
well_typed(armrec, fn, rest) ==
    LET ty == fn.output IN
    /\ format_ok(format_args(armrec, rest))
    /\ (armrec.dot_await = ".await") = fn.asyncness
    /\ (armrec.async_block = "async") = (armrec.dot_await = ".await")
    /\ (armrec.if_result_open # "") = IsResultType(ty)
    /\ (armrec.if_result_open # "") = (armrec.if_result_close = "}")
    /\ armrec.assert_call = "assert!(result" => IsBoolPayload(ty)
    /\ armrec.assert_call = "assert_eq!(result.0, result.1" => HasPair(ty)
    /\ armrec.tuple_destructure # <<>> => pattern_ok(armrec.tuple_destructure, ty)
    /\ \A i \in DOMAIN format_args(armrec, rest).named :
         format_args(armrec, rest).named[i] \in Range(armrec.tuple_destructure)

\* the borrow checker: `result` is read again as the value of the block, so
\* nothing that is not Copy may have been moved out of it.  The guard
\* `if let Ok(result) = result` binds the payload by value, and so does a
\* named position of the pattern.
no_use_after_move(armrec, fn) ==
    /\ armrec.if_result_open # "" => PayloadIsCopy(fn.output)
    /\ armrec.tuple_destructure # <<>> =>
         ~pattern_moves(armrec.tuple_destructure, fn.output)

\* rustc accepts the expansion of the arm
typechecks(armrec, fn, rest) ==
    well_typed(armrec, fn, rest) /\ no_use_after_move(armrec, fn)

(***************************************************************************)
(* Execution of the body of the selected arm.                              *)
(***************************************************************************)
BoundTo(bind, n) ==
    LET hit == {i \in DOMAIN bind : bind[i][1] = n} IN
    IF hit = {} THEN Tok("unbound", 0, <<>>) ELSE bind[CHOOSE i \in hit : TRUE][2]

RECURSIVE call_args(_, _)
\* {fn_name}({values}): the slots of the fragment, replaced by what they are
\* bound to, in the fragment's order
call_args(values, bind) ==
    IF values = <<>> THEN <<>>
    ELSE (IF Head(values).t = "slot" THEN <<BoundTo(bind, Head(values).n)>> ELSE <<>>)
         \o call_args(Tail(values), bind)

RECURSIVE bindings(_, _, _)
\* the names the pattern binds, with their values: <<name, value>> pairs
bindings(pat, t, i) ==
    IF i > Len(pat) THEN <<>>
    ELSE (IF pat[i] # "_" /\ i <= Len(t) THEN <<<<pat[i], t[i]>>>> ELSE <<>>)
         \o bindings(pat, t, i + 1)

Panic(kind, left, right, has, custom) ==
    [kind |-> kind, left |-> left, right |-> right, has |-> has, custom |-> custom]
NoPanic == Panic("", 0, 0, FALSE, <<>>)

Run(called, passed, ret, guard, destructured, asserted, failed, panic, yielded) ==
    [called |-> called, passed |-> passed, ret |-> ret, guard |-> guard,
     destructured |-> destructured, asserted |-> asserted, failed |-> failed,
     panic |-> panic, yielded |-> yielded]
NoRun == Run(FALSE, <<>>, NoVal, "none", FALSE, FALSE, FALSE, NoPanic, NoVal)

\* mutant: the truthiness assertion is emitted negated
assertion_fails_negated(armrec, inner) ==
    IF armrec.assert_call = "assert!(result" THEN inner.b
    ELSE inner.t[1] # inner.t[2]

\* mutant: the equality assertion compares the first and the last element
assertion_fails_first_last(armrec, inner) ==
    IF armrec.assert_call = "assert!(result" THEN ~inner.b
    ELSE inner.t[1] # inner.t[Len(inner.t)]

\* mutant: the failure case is escalated (an unwrap instead of the guard)
skipped_raises(armrec, outer) == TRUE

\* the `if let Ok(result) = result { .. }` has no else branch: when the
\* guard is not entered nothing is asserted and nothing is raised
skipped_fails(armrec, outer) == FALSE

\* the assertion on the (unwrapped) result: assert!(result ..) or
\* assert_eq!(result.0, result.1 ..)
assertion_fails(armrec, inner) ==
    IF armrec.assert_call = "assert!(result" THEN ~inner.b
    ELSE inner.t[1] # inner.t[2]

panic_of(armrec, inner, fa, env) ==
    IF armrec.assert_call = "assert!(result"
    THEN Panic("assert", 0, 0, fa.has, format(fa.fmt, fa.pos, env))
    ELSE Panic("assert_eq", inner.t[1], inner.t[2], fa.has, format(fa.fmt, fa.pos, env))

\* let result = f(values); [if let Ok(result) = result {] [let (..) = result;]
\* assert..(.., message); [}] result
\* `outer` is the `result` of the first let; inside the guard `result` is
\* the payload of Ok; the closing brace ends that scope, so the last
\* `result` is the outer one again
execute(armrec, bind, rest, ret) ==
    LET passed == call_args(armrec.values, bind)
        outer == ret
        guarded == armrec.if_result_open # ""
        entered == ~guarded \/ outer.wrap = "Ok"
        inner == IF guarded THEN Val("none", outer.b, outer.t) ELSE outer
        last == IF guarded /\ entered /\ armrec.if_result_close # "}"
                THEN inner ELSE outer
        env == IF entered /\ armrec.tuple_destructure # <<>>
               THEN bindings(armrec.tuple_destructure, inner.t, 1) ELSE <<>>
        fa == format_args(armrec, rest)
        failed == IF entered THEN assertion_fails(armrec, inner)
                  ELSE skipped_fails(armrec, outer)
    IN Run(TRUE, passed, ret,
           IF ~guarded THEN "none" ELSE IF ret.wrap = "Ok" THEN "ok" ELSE "err",
           entered /\ armrec.tuple_destructure # <<>>,
           entered, failed,
           IF failed /\ entered THEN panic_of(armrec, inner, fa, env) ELSE NoPanic,
           IF failed THEN NoVal ELSE last)

(***************************************************************************)
(* Inputs.                                                                 *)
(***************************************************************************)
Items ==
    {ItemFn("f", ty, n, a) : ty \in ReturnTypes, n \in 0..MaxArity, a \in BOOLEAN}

Plain == <<"O", "h">>           \* a template without placeholders
Holed == <<"{", "d", "}">>      \* a template with the placeholder {d}
Quoted == <<"a", "\"", "b">>    \* a template holding one double quote
TwoQuoted == <<"\"", "\"">>     \* a template of two double quotes
Escaped == <<"\\", "n">>        \* a template of a backslash and the letter n

AttributeArgs ==
    { <<>>,
      <<MetaEntry("namevalue", "message", <<>>)>>,
      <<MetaEntry("list", "other", <<NStr(Plain)>>)>>,
      <<MessageList(<<>>)>>,
      <<MessageList(<<NStr(Plain)>>)>>,
      <<MessageList(<<NStr(Plain), NPath("_")>>)>>,
      <<MessageList(<<NStr(Plain), NLit>>)>>,
      <<MessageList(<<NStr(Holed), NPath("d")>>)>>,
      <<MessageList(<<NStr(Holed), NPath("_"), NPath("d")>>)>>,
      <<MessageList(<<NStr(Holed), NPath("_"), NPath("_"), NPath("d")>>)>>,
      <<MessageList(<<NStr(Holed), NMeta, NPath("_"), NPath("d")>>)>>,
      <<MessageList(<<NLit, NPath("d")>>), MessageList(<<NStr(Plain)>>)>>,
      <<MessageList(<<NStr(Plain)>>), MessageList(<<NStr(Holed), NPath("d")>>)>>,
      <<MessageList(<<NStr(Quoted)>>)>>,
      <<MessageList(<<NStr(TwoQuoted)>>)>>,
      <<MessageList(<<NStr(Escaped)>>)>> }

Fail == <<"N", "o">>            \* "No": a caller's message
FailFmt == <<"N", "{", "}">>    \* "N{}": a caller's format string

\* the tokens after the positional values: nothing, a trailing comma, or
\* the diagnostic tokens
Suffixes ==
    { <<>>, <<Comma>>, <<Lit(Fail)>>, <<Lit(FailFmt), Comma, Expr(0)>> }

RECURSIVE comma_separated(_)
comma_separated(vals) ==
    IF vals = <<>> THEN <<>>
    ELSE IF Len(vals) = 1 THEN <<Expr(Head(vals))>>
    ELSE <<Expr(Head(vals)), Comma>> \o comma_separated(Tail(vals))

\* v1, .., vm followed by a suffix (after a comma when both are present)
Invocation(vals, suffix) ==
    comma_separated(vals)
    \o (IF vals # <<>> /\ suffix # <<>> /\ suffix # <<Comma>> THEN <<Comma>> ELSE <<>>)
    \o suffix

Invocations ==
    UNION {{Invocation(vals, sfx) : vals \in [1..m -> Values], sfx \in Suffixes} :
              m \in 0..MaxArity}

(***************************************************************************)
(* The state machine.                                                      *)
(***************************************************************************)
Init ==
    /\ item \in Items
    /\ args \in AttributeArgs
    /\ gen = "pending"
    /\ return_type = Fatal("")
    /\ assert_message = NoMessage
    /\ artifact = NoArtifact
    /\ tokens = <<>>
    /\ pc = "idle"
    /\ arm = "none"
    /\ run = NoRun

\* the compiler expands #[assert_fn(args)] on item
Generate ==
    /\ gen = "pending"
    /\ return_type' = get_return_type(item)
    /\ assert_message' = IF get_return_type(item).tag = "Fatal" THEN NoMessage
                         ELSE get_message(args)
    /\ artifact' = assert_fn(args, item)
    /\ gen' = IF assert_fn(args, item).ok THEN "done" ELSE "fatal"
    /\ UNCHANGED <<item, args, tokens, pc, arm, run>>

Outcome(r) == IF r.failed THEN "panicked" ELSE "returned"

\* mutant: the body of an async arm runs at the invocation (no async block
\* around it, the future driven on the spot)
InvokeEager(toks) ==
    /\ gen = "done"
    /\ pc = "idle"
    /\ tokens' = toks
    /\ arm' = select_arm(artifact, toks)
    /\ LET which == select_arm(artifact, toks)
           armrec == ArmOf(artifact, which)
           m == match_arm(armrec, toks)
       IN IF which = "none" \/ ~typechecks(armrec, artifact.original_fn, m.rest)
          THEN pc' = "rejected" /\ run' = NoRun
          ELSE \E ret \in RetValues(artifact.original_fn.output) :
                 /\ run' = execute(armrec, m.bind, m.rest, ret)
                 /\ pc' = Outcome(execute(armrec, m.bind, m.rest, ret))
    /\ UNCHANGED <<item, args, gen, return_type, assert_message, artifact>>

\* assert_f!(toks) is compiled and evaluated: the arm is selected and
\* checked; an async arm evaluates to a future, any other runs its body
Invoke(toks) ==
    /\ gen = "done"
    /\ pc = "idle"
    /\ tokens' = toks
    /\ arm' = select_arm(artifact, toks)
    /\ LET which == select_arm(artifact, toks)
           armrec == ArmOf(artifact, which)
           m == match_arm(armrec, toks)
       IN IF which = "none" \/ ~typechecks(armrec, artifact.original_fn, m.rest)
          THEN pc' = "rejected" /\ run' = NoRun
          ELSE IF armrec.async_block = "async"
          THEN pc' = "suspended" /\ run' = NoRun
          ELSE \E ret \in RetValues(artifact.original_fn.output) :
                 /\ run' = execute(armrec, m.bind, m.rest, ret)
                 /\ pc' = Outcome(execute(armrec, m.bind, m.rest, ret))
    /\ UNCHANGED <<item, args, gen, return_type, assert_message, artifact>>

\* the caller awaits the future of an async arm: the body runs now
Await ==
    /\ pc = "suspended"
    /\ LET armrec == ArmOf(artifact, arm)
           m == match_arm(armrec, tokens)
       IN \E ret \in RetValues(artifact.original_fn.output) :
            /\ run' = execute(armrec, m.bind, m.rest, ret)
            /\ pc' = Outcome(execute(armrec, m.bind, m.rest, ret))
    /\ UNCHANGED <<item, args, gen, return_type, assert_message, artifact, tokens, arm>>

Next ==
    \/ Generate
    \/ \E toks \in Invocations : Invoke(toks)
    \/ Await

Spec == Init /\ [][Next]_vars

(***************************************************************************)
(* Properties.                                                             *)
(***************************************************************************)
Failable == return_type.tag \in {"ResultBool", "ResultTuple"}
TupleShaped == return_type.tag \in {"Tuple", "ResultTuple"}
HasNamedBinding == assert_message.some /\ \E i \in DOMAIN assert_message.args :
                                            assert_message.args[i] # "_"

\* C1: for a bool-returning function, whenever the wrapped call was made
\* (either arm, any arity) the invocation raised the assertion failure
\* exactly when the call returned false.
C1_BoolRaisesIffFalse ==
    (return_type.tag = "Bool" /\ run.called) =>
        /\ pc \in {"returned", "panicked"}
        /\ (pc = "panicked") <=> (run.ret.b = FALSE)

C1_Witness ==
    /\ return_type.tag = "Bool" /\ run.called /\ arm = "B" /\ item.inputs = MaxArity
    /\ pc = "panicked" /\ run.ret.b = FALSE

\* C2: for a tuple-returning function, whenever the wrapped call was made
\* the invocation raised the assertion failure exactly when element 0 of the
\* returned tuple differed from element 1, whatever the later elements hold.
C2_TupleRaisesIffFirstTwoDiffer ==
    (return_type.tag = "Tuple" /\ run.called) =>
        /\ pc \in {"returned", "panicked"}
        /\ (pc = "panicked") <=> (run.ret.t[1] # run.ret.t[2])

C2_Witness ==
    /\ return_type.tag = "Tuple" /\ run.called /\ Len(run.ret.t) = 3
    /\ run.ret.t[1] = run.ret.t[2] /\ run.ret.t[3] # run.ret.t[1]
    /\ pc = "returned"

\* C3: for a Result-returning function, when the wrapped call returned Err
\* no assertion was evaluated and nothing was raised (either arm, any
\* message directive); when it returned Ok the invocation raised exactly
\* when the bool payload was false, or elements 0 and 1 of the tuple payload
\* differed.
C3_FailableGuard ==
    (Failable /\ run.called) =>
        /\ run.ret.wrap \in {"Ok", "Err"}
        /\ run.ret.wrap = "Err" =>
             ~run.asserted /\ ~run.destructured /\ pc = "returned"
        /\ run.ret.wrap = "Ok" =>
             /\ run.asserted
             /\ (pc = "panicked") <=>
                  IF return_type.tag = "ResultBool" THEN ~run.ret.b
                  ELSE run.ret.t[1] # run.ret.t[2]

C3_Witness ==
    /\ Failable /\ run.called /\ run.ret.wrap = "Err" /\ pc = "returned"
    /\ arm = "A" /\ HasNamedBinding

\* C4: every well-typed invocation runs, and when it completes without an
\* assertion failure it yields exactly the value the wrapped function
\* returned: for every return shape, both arms, and payloads that are not
\* Copy.
C4_YieldsReturnedValue ==
    /\ pc = "returned" => run.yielded = run.ret
    /\ (pc = "rejected" /\ arm # "none") =>
         ~well_typed(ArmOf(artifact, arm), artifact.original_fn,
                     match_arm(ArmOf(artifact, arm), tokens).rest)

\* the tokens of the invocation after the item.inputs positional values
DiagnosticTail == SubSeq(tokens, 2 * item.inputs + 1, Len(tokens))

\* C5: when arm B raised the assertion failure, the custom part of the
\* message is the caller's trailing tokens formatted, and nothing of the
\* configured template or its bindings.
C5_FormBOverrides ==
    (pc = "panicked" /\ arm = "B") =>
        /\ run.panic.has
        /\ Head(DiagnosticTail).t = "lit"
        /\ run.panic.custom =
             format(Head(DiagnosticTail).s, tail_positional(Tail(DiagnosticTail)), <<>>)

C5_Witness ==
    /\ pc = "panicked" /\ arm = "B" /\ HasNamedBinding /\ TupleShaped
    /\ Len(DiagnosticTail) = 3

IsSlot(tk) == tk.t = "slot"
ExpectedSlots == [i \in 1..item.inputs |-> Slot(i - 1)]

\* C6: both arms bind exactly the slots arg_0..arg_{N-1}, N the arity, and
\* the wrapped function is passed exactly the N positional values of the
\* invocation in their order, none of the trailing tokens.
C6_ForwardsPositional ==
    /\ artifact.ok =>
         /\ SelectSeq(artifact.armA.matcher, IsSlot) = ExpectedSlots
         /\ SelectSeq(artifact.armB.matcher, IsSlot) = ExpectedSlots
    /\ run.called =>
         /\ Len(run.passed) = item.inputs
         /\ \A i \in 1..item.inputs : run.passed[i] = tokens[2 * i - 1]

C6_Witness ==
    /\ run.called /\ arm = "B" /\ item.inputs = MaxArity /\ MaxArity >= 2
    /\ run.passed[1] # run.passed[2]

\* C7: the wrapped call (and with it the guard and the assertion) of an
\* async function is made in a step taken from the suspended future, that
\* is by the caller's await, and the invocation itself leaves nothing done;
\* the call of a function that is not async is made by the invocation step
\* itself, which never suspends.
C7_AsyncDeferred ==
    [][ /\ pc' = "suspended" => (item.asyncness /\ run' = NoRun)
        /\ (run'.called /\ ~run.called) =>
             IF item.asyncness THEN pc = "suspended" ELSE pc = "idle"
        /\ (pc = "idle" /\ pc' \in {"returned", "panicked"}) => ~item.asyncness
      ]_vars

C7_Witness ==
    /\ item.asyncness /\ run.called /\ run.asserted /\ Failable /\ pc = "panicked"

\* the classification table of the return-shape classifier
Classified(ty) ==
    IF ty.kind = "default" THEN Fatal("")
    ELSE IF ty.kind = "tuple" THEN Tuple(ty.len)
    ELSE IF ty.kind = "path" /\ ty.last = "bool" THEN Bool
    ELSE IF ty.kind = "path" /\ ty.last = "Result"
    THEN IF ty.generic = "bool" THEN ResultBool
         ELSE IF ty.generic = "tuple" THEN ResultTuple(ty.len)
         ELSE Fatal("")
    ELSE Fatal("")

\* C8: the classifier yields, for every declared return type, the one
\* outcome of the table: fatal without a return type, Tuple(n) for a tuple
\* of length n, Boolean for a path ending in bool, Failable(Boolean) or
\* Failable(Tuple(n)) for a path ending in Result by its type argument,
\* fatal for everything else.
C8_ClassifierTable ==
    gen # "pending" =>
        /\ return_type.tag = Classified(item.output).tag
        /\ return_type.n = Classified(item.output).n

\* C9: named bindings on a Boolean or Failable(Boolean) shape abort the
\* generation: no artifact, neither the invoker nor the original function.
C9_NamedOnBoolIsFatal ==
    (gen # "pending" /\ return_type.tag \in {"Bool", "ResultBool"} /\ HasNamedBinding) =>
        /\ gen = "fatal"
        /\ artifact = Aborted("Tried to use message args on function with boolean return type")

C9_Witness ==
    /\ gen = "fatal" /\ return_type.tag = "ResultBool" /\ HasNamedBinding
    /\ ~artifact.ok /\ artifact.original_fn = NoItem

\* C10: every Tuple(n) / Failable(Tuple(n)) the classifier produces has
\* n >= 2 and n the number of elements of the declared tuple type.
C10_TupleArity ==
    (gen # "pending" /\ TupleShaped) =>
        /\ return_type.n >= 2
        /\ return_type.n = item.output.len

\* C11: an emitted destructuring pattern has exactly n positions, n the
\* arity of the Tuple / Failable(Tuple) shape: the parsed bindings in their
\* order, then ignore markers; the bindings are never more than n.
C11_PatternArity ==
    (artifact.ok /\ artifact.armA.tuple_destructure # <<>>) =>
        LET pat == artifact.armA.tuple_destructure
            bound == assert_message.args
        IN /\ TupleShaped
           /\ Len(bound) <= return_type.n
           /\ Len(pat) = return_type.n
           /\ \A i \in DOMAIN pat :
                pat[i] = IF i <= Len(bound) THEN bound[i] ELSE "_"

\* the message(...) entries of the attribute, in order, and those whose
\* first value is a string literal
IsMessageEntry(m) == m.k = "list" /\ m.name = "message"
MessageEntries == SelectSeq(args, IsMessageEntry)
WellFormedAt(i) ==
    MessageEntries[i].nested # <<>> /\ Head(MessageEntries[i].nested).k = "str"
WellFormedEntries == {i \in DOMAIN MessageEntries : WellFormedAt(i)}
FirstWellFormed == CHOOSE i \in WellFormedEntries : \A j \in WellFormedEntries : i <= j
Parsed == gen # "pending" /\ return_type.tag # "Fatal"

\* C12 as stated: only the first message entry counts; when its first
\* value is no string literal there is no directive, whatever follows.
C12_FirstEntryOnly ==
    (Parsed /\ MessageEntries # <<>>) =>
        IF WellFormedAt(1)
        THEN assert_message = message_of_params(MessageEntries[1].nested)
        ELSE ~assert_message.some

\* C12 amended: the directive is that of the first message entry whose
\* first value is a string literal; malformed entries before it are
\* skipped, entries after it have no effect; there is no directive exactly
\* when no message entry is well formed.
C12_FirstWellFormedEntry ==
    Parsed =>
        IF WellFormedEntries = {} THEN ~assert_message.some
        ELSE /\ assert_message.some
             /\ assert_message = message_of_params(MessageEntries[FirstWellFormed].nested)

C12_Witness ==
    /\ Parsed /\ Len(MessageEntries) = 2 /\ ~WellFormedAt(1) /\ WellFormedAt(2)
    /\ assert_message.some

\* C13 as stated: a pattern only in arm A and only with a named binding on
\* a tuple shape; none for an empty or ignore-only binding list.
C13_NamedBindingOnly ==
    artifact.ok =>
        /\ artifact.armB.tuple_destructure = <<>>
        /\ artifact.armA.tuple_destructure # <<>> => (HasNamedBinding /\ TupleShaped)

\* C13 amended: arm B never holds a pattern; arm A holds one exactly when
\* the directive's binding list is not empty (names or ignore markers
\* alike), and then the shape is Tuple or Failable(Tuple).
C13_AnyBindingEmitsPattern ==
    artifact.ok =>
        /\ artifact.armB.tuple_destructure = <<>>
        /\ (artifact.armA.tuple_destructure # <<>>) <=>
             (assert_message.some /\ assert_message.args # <<>>)
        /\ artifact.armA.tuple_destructure # <<>> => TupleShaped

C13_Witness ==
    /\ artifact.ok /\ artifact.armA.tuple_destructure # <<>> /\ ~HasNamedBinding
    /\ arm = "A" /\ run.destructured /\ pc = "returned"

\* the template of the honoured message entry
Template == Head(MessageEntries[FirstWellFormed].nested).s

\* C14: whatever characters the accepted template holds, generation does
\* not abort on them, the literal of arm A reads back as the template's
\* text, and nothing but the named arguments follows the literal.
C14_TemplateReadsBack ==
    (Parsed /\ assert_message.some /\ gen # "pending") =>
        /\ ~(~artifact.ok /\ artifact.panic = "Generated invalid tokens")
        /\ artifact.ok =>
             LET fa == parse_message(artifact.armA.message) IN
             /\ fa.ok /\ fa.has
             /\ fa.fmt = Template
             /\ fa.stray = <<>>
             /\ fa.named = SelectSeq(assert_message.args, LAMBDA id : id # "_")

====
